---- MODULE Spec2Model ----
(***************************************************************************)
(* psshlib.api: call / copy / slurp over a set of hosts.                   *)
(*                                                                         *)
(* The three public operations of src/psshlib/api.py are modelled step by  *)
(* step (output directories, Manager construction, the host loop that      *)
(* builds and submits one Task per iteration, manager.run(), the return or *)
(* sys.exit).  psshlib.manager.Manager and psshlib.task.Task are imported  *)
(* by api.py but are not part of the sources at hand; the engine actions   *)
(* below follow the written design of the engine instead.                  *)
(***************************************************************************)
EXTENDS Integers, Sequences, FiniteSets, TLC

(***************************************************************************)
(* Python values.  Every value is a record [t, v]: t is the Python type,   *)
(* v a sequence holding the payload.  The payload of a str is a sequence   *)
(* of text chunks: host, port and user names, which the code may iterate   *)
(* and unpack, are written one character per chunk; literals that are only *)
(* passed around are a single chunk.                                       *)
(***************************************************************************)
None == [t |-> "NoneType", v |-> <<>>]
Str(s) == [t |-> "str", v |-> s]
IntV(n) == [t |-> "int", v |-> <<n>>]
Tup(s) == [t |-> "tuple", v |-> s]
Lit(s) == [t |-> "str", v |-> <<s>>]
Raise(e) == [t |-> "raise", v |-> <<e>>]
EmptyStr == [t |-> "str", v |-> <<>>]

IsRaise(x) == x.t = "raise"

Range(s) == {s[i] : i \in DOMAIN s}

\* Python truth value of an object: None, "", (), [] and 0 are false.
Truthy(x) ==
    CASE x.t = "NoneType" -> FALSE
      [] x.t = "int" -> x.v[1] # 0
      [] x.t \in {"str", "tuple"} -> Len(x.v) > 0
      [] OTHER -> TRUE

\* a or b
PyOr(a, b) == IF Truthy(a) THEN a ELSE b

\* '%s' % x for the values that reach a format string
ToStr(x) ==
    CASE x.t = "str" -> x.v
      [] x.t = "NoneType" -> <<"None">>
      [] x.t = "int" -> <<ToString(x.v[1])>>
      [] OTHER -> <<"<object>">>

\* '%s/%s' % (a, b)
FmtPath(a, b) == Str(ToStr(a) \o <<"/">> \o ToStr(b))
\* '%s:%s' % (a, b)
FmtColon(a, b) == Str(ToStr(a) \o <<":">> \o ToStr(b))
\* '%s@%s:%s' % (a, b, c)
FmtAt(a, b, c) == Str(ToStr(a) \o <<"@">> \o ToStr(b) \o <<":">> \o ToStr(c))

(***************************************************************************)
(* class Error: the object returned for a host instead of a result.        *)
(***************************************************************************)
Error(msg) == [t |-> "Error", v |-> <<msg>>]

(***************************************************************************)
(* _expand_host_port_user(lst).  The for loop returns from its first       *)
(* iteration, so the value is the triple of the first entry (the entry     *)
(* itself when it has neither one nor two elements), and None, the value   *)
(* of a function that falls off its end, for the empty list.  len() of an  *)
(* entry that is neither a string nor a sequence raises TypeError.         *)
(***************************************************************************)
_expand_host_port_user(lst) ==
    IF Len(lst) = 0 THEN None
    ELSE LET v == lst[1] IN
         IF v.t = "str" THEN Tup(<<v, None, None>>)
         ELSE IF v.t # "tuple" THEN Raise("TypeError")
         ELSE IF Len(v.v) = 1 THEN Tup(<<v.v[1], None, None>>)
         ELSE IF Len(v.v) = 2 THEN Tup(<<v.v[1], v.v[2], None>>)
         ELSE v

\* iter(x) of the for statement: the elements (as a tuple), or TypeError
\* for a value that is not iterable.
Iterate(x) ==
    CASE x.t = "tuple" -> x
      [] x.t = "str" -> Tup([i \in DOMAIN x.v |-> Str(<<x.v[i]>>)])
      [] x.t = "raise" -> x
      [] OTHER -> Raise("TypeError")

\* host, port, user = e: a sequence of exactly three elements is unpacked
\* (a str into its characters); another length is a ValueError, a value that
\* is not iterable a TypeError.
Unpack3(e) ==
    CASE e.t = "str" ->
            IF Len(e.v) = 3
            THEN Tup(<<Str(<<e.v[1]>>), Str(<<e.v[2]>>), Str(<<e.v[3]>>)>>)
            ELSE Raise("ValueError")
      [] e.t = "tuple" -> IF Len(e.v) = 3 THEN e ELSE Raise("ValueError")
      [] OTHER -> Raise("TypeError")

(***************************************************************************)
(* class Options.  An Options object has the attributes of lines 49-62     *)
(* only; the objects the docstrings of copy and slurp call CopyOptions     *)
(* carry localdir, options and extra as well (cls = "CopyOptions").        *)
(***************************************************************************)
DEFAULT_PARALLELISM == 32
DEFAULT_TIMEOUT == 60

Options ==
    [cls |-> "Options",
     limit |-> DEFAULT_PARALLELISM,
     timeout |-> DEFAULT_TIMEOUT,
     askpass |-> FALSE,
     outdir |-> None,
     errdir |-> None,
     ssh_options |-> Tup(<<>>),
     ssh_extra |-> Tup(<<>>),
     verbose |-> FALSE,
     quiet |-> FALSE,
     print_out |-> FALSE,
     inline |-> TRUE,
     inline_stdout |-> FALSE,
     input_stream |-> None,
     recursive |-> TRUE,
     localdir |-> None,
     options |-> Tup(<<>>),
     extra |-> Tup(<<>>)]

OptionsAttrs ==
    {"limit", "timeout", "askpass", "outdir", "errdir", "ssh_options",
     "ssh_extra", "verbose", "quiet", "print_out", "inline", "inline_stdout",
     "input_stream", "recursive"}

\* whether opts.<a> is an attribute of the object; reading one that is not
\* raises AttributeError
HasAttr(opts, a) == a \in OptionsAttrs \/ opts.cls # "Options"

\* ['-o', opt] for each opt
RECURSIVE OptFlags(_)
OptFlags(os) ==
    IF Len(os) = 0 THEN <<>>
    ELSE <<Lit("-o"), Head(os)>> \o OptFlags(Tail(os))

(***************************************************************************)
(* The command builders: the argument vector, as a tuple, or the           *)
(* exception the builder raises.                                           *)
(***************************************************************************)
_build_call_cmd(host, port, user, cmdline, options, extra) ==
    Tup(<<Lit("ssh"), host,
          Lit("-o"), Lit("NumberOfPasswordPrompts=1"),
          Lit("-o"), Lit("SendEnv=PSSH_NODENUM PSSH_HOST")>>
        \o (IF Truthy(options) THEN OptFlags(options.v) ELSE <<>>)
        \o (IF Truthy(user) THEN <<Lit("-l"), user>> ELSE <<>>)
        \o (IF Truthy(port) THEN <<Lit("-p"), port>> ELSE <<>>)
        \o (IF Truthy(extra) THEN extra.v ELSE <<>>)
        \o (IF Truthy(cmdline) THEN <<cmdline>> ELSE <<>>))

_build_copy_cmd(host, port, user, src, dst, opts) ==
    IF ~HasAttr(opts, "options") \/ ~HasAttr(opts, "extra")
    THEN Raise("AttributeError")
    ELSE IF IsRaise(Iterate(src)) THEN Raise("TypeError")
    ELSE Tup(<<Lit("scp"), Lit("-qC")>>
             \o (IF Truthy(opts.options) THEN OptFlags(opts.options.v) ELSE <<>>)
             \o (IF Truthy(port) THEN <<Lit("-P"), port>> ELSE <<>>)
             \o (IF opts.recursive THEN <<Lit("-r")>> ELSE <<>>)
             \o (IF Truthy(opts.extra) THEN opts.extra.v ELSE <<>>)
             \o Iterate(src).v
             \o (IF Truthy(user) THEN <<FmtAt(user, host, dst)>>
                 ELSE <<FmtColon(host, dst)>>))

_build_slurp_cmd(host, port, user, src, dst, opts) ==
    IF ~HasAttr(opts, "options") \/ ~HasAttr(opts, "extra")
    THEN Raise("AttributeError")
    ELSE Tup(<<Lit("scp"), Lit("-qC")>>
             \o (IF Truthy(opts.options) THEN OptFlags(opts.options.v) ELSE <<>>)
             \o (IF Truthy(port) THEN <<Lit("-P"), port>> ELSE <<>>)
             \o (IF opts.recursive THEN <<Lit("-r")>> ELSE <<>>)
             \o (IF Truthy(opts.extra) THEN opts.extra.v ELSE <<>>)
             \o (IF Truthy(user) THEN <<FmtAt(user, host, src)>>
                 ELSE <<FmtColon(host, src)>>)
             \o <<dst>>)

(***************************************************************************)
(* The file system: the set of directories that exist, and whether new     *)
(* ones can be made.                                                       *)
(***************************************************************************)
\* os.path.exists(p)
Exists(fs, p) == p \in fs

SlashAt(p) == {i \in DOMAIN p.v : p.v[i] = "/"}
Max(S) == CHOOSE x \in S : \A y \in S : y <= x

\* the directories above p that are named in p
Parents(p) == {Str(SubSeq(p.v, 1, i - 1)) : i \in SlashAt(p)}
HasParent(fs, p) ==
    SlashAt(p) = {} \/ Str(SubSeq(p.v, 1, Max(SlashAt(p)) - 1)) \in fs

\* os.makedirs(p): p and the missing directories above it, or OSError
MakeDirs(fs, writable, p) ==
    IF writable THEN [fs |-> fs \cup Parents(p) \cup {p}, exc |-> None]
    ELSE [fs |-> fs, exc |-> Raise("OSError")]

\* os.mkdir(p): p alone, under a directory that exists, or OSError
MkDir(fs, writable, p) ==
    IF writable /\ HasParent(fs, p) THEN [fs |-> fs \cup {p}, exc |-> None]
    ELSE [fs |-> fs, exc |-> Raise("OSError")]

\* if d and not os.path.exists(d): os.makedirs(d)
EnsureDir(fs, writable, d) ==
    IF Truthy(d) /\ ~Exists(fs, d) THEN MakeDirs(fs, writable, d)
    ELSE [fs |-> fs, exc |-> None]

(***************************************************************************)
(* The result builders.  _CallOutputBuilder, _CopyOutputBuilder and        *)
(* _SlurpOutputBuilder have the same finished() and result().  A task is   *)
(* an object: finished_tasks holds references, here the tasks' positions   *)
(* in objs, and result() reads the objects as they are when it runs.       *)
(***************************************************************************)
Dict(f) == [t |-> "dict", v |-> <<f>>]
EmptyDict == Dict([k \in {} |-> None])
Keys(d) == DOMAIN d.v[1]
Get(d, k) == d.v[1][k]
\* d[k] = x
DictSet(d, k, x) ==
    Dict([y \in Keys(d) \cup {k} |-> IF y = k THEN x ELSE Get(d, y)])

\* ', '.join(l)
RECURSIVE JoinChunks(_)
JoinChunks(l) ==
    IF Len(l) = 0 THEN <<>>
    ELSE IF Len(l) = 1 THEN l[1].v
    ELSE l[1].v \o <<", ">> \o JoinChunks(Tail(l))
Join(l) == Str(JoinChunks(l))

\* finished() that keeps nothing
finished_Forgets(finished_tasks, task) == finished_tasks

\* finished(self, task, n)
finished(finished_tasks, task) == Append(finished_tasks, task)

\* the value result() stores under task.host
ResultEntry(task, manager) ==
    IF Len(task.failures) > 0
    THEN Error(Join(task.failures))
    ELSE Tup(<<task.exitstatus,
               PyOr(task.outputbuffer, manager.outdir),
               PyOr(task.errorbuffer, manager.errdir)>>)

RECURSIVE ResultLoop(_, _, _, _)
ResultLoop(ft, objs, manager, ret) ==
    IF Len(ft) = 0 THEN ret
    ELSE ResultLoop(Tail(ft), objs, manager,
                    DictSet(ret, objs[Head(ft)].host,
                            ResultEntry(objs[Head(ft)], manager)))

\* result(self, manager)
result(finished_tasks, objs, manager) ==
    ResultLoop(finished_tasks, objs, manager, EmptyDict)

(***************************************************************************)
(* _slurp_make_local_dirs(hosts, dst, opts): the file system it leaves and *)
(* the exception it ends with, None when it returns.                       *)
(***************************************************************************)
RECURSIVE SlurpDirsLoop(_, _, _, _)
SlurpDirsLoop(elems, fs, writable, opts) ==
    IF Len(elems) = 0 THEN [fs |-> fs, exc |-> None]
    ELSE LET hpu == Unpack3(Head(elems)) IN
         IF IsRaise(hpu) THEN [fs |-> fs, exc |-> hpu]
         ELSE IF ~HasAttr(opts, "localdir")
         THEN [fs |-> fs, exc |-> Raise("AttributeError")]
         ELSE LET dirname == IF Truthy(opts.localdir)
                             THEN FmtPath(opts.localdir, hpu.v[1])
                             ELSE hpu.v[1]
                  made == IF ~Exists(fs, dirname)
                          THEN MkDir(fs, writable, dirname)
                          ELSE [fs |-> fs, exc |-> None]
              IN IF IsRaise(made.exc) THEN made
                 ELSE SlurpDirsLoop(Tail(elems), made.fs, writable, opts)

_slurp_make_local_dirs(hosts, dst, opts, fs, writable) ==
    LET top == IF ~Exists(fs, dst) THEN MakeDirs(fs, writable, dst)
               ELSE [fs |-> fs, exc |-> None]
        it == Iterate(_expand_host_port_user(hosts))
    IN IF IsRaise(top.exc) THEN top
       ELSE IF IsRaise(it) THEN [fs |-> top.fs, exc |-> it]
       ELSE SlurpDirsLoop(it.v, top.fs, writable, opts)

(***************************************************************************)
(* Task and Manager (psshlib.task, psshlib.manager).                       *)
(***************************************************************************)
NoProc == [dur |-> 0, rc |-> 0, out |-> EmptyStr, err |-> EmptyStr]

\* Task(host, port, user, cmd, stdin=, verbose=, quiet=, print_out=,
\*      inline=, inline_stdout=)
Task(host, port, user, cmd, opts) ==
    [host |-> host, port |-> port, user |-> user, cmd |-> cmd,
     stdin |-> opts.input_stream,
     inline |-> opts.inline, inline_stdout |-> opts.inline_stdout,
     state |-> "Pending",
     failures |-> <<>>,
     exitstatus |-> None,
     outputbuffer |-> EmptyStr,
     errorbuffer |-> EmptyStr,
     elapsed |-> 0,
     proc |-> NoProc]

NoManager ==
    [made |-> FALSE, limit |-> 0, timeout |-> 0, askpass |-> FALSE,
     outdir |-> None, errdir |-> None,
     tasks |-> <<>>, running |-> <<>>, done |-> <<>>, state |-> "Idle"]

\* Manager(limit=, timeout=, askpass=, outdir=, errdir=, callbacks=)
Manager(limit, timeout, askpass, outdir, errdir) ==
    [made |-> TRUE, limit |-> limit, timeout |-> timeout, askpass |-> askpass,
     outdir |-> outdir, errdir |-> errdir,
     tasks |-> <<>>, running |-> <<>>, done |-> <<>>, state |-> "Idle"]

\* limit= left out of the call: the Manager runs with the default limit
NewManager_DefaultLimit(opts) ==
    Manager(DEFAULT_PARALLELISM, opts.timeout, opts.askpass, opts.outdir,
            opts.errdir)

\* the Manager that call, copy and slurp construct from opts
NewManager(opts) ==
    Manager(opts.limit, opts.timeout, opts.askpass, opts.outdir, opts.errdir)

\* manager.add_task(t)
add_task(manager, t) == [manager EXCEPT !.tasks = Append(@, t)]

(***************************************************************************)
(* Bounds and inputs.                                                      *)
(***************************************************************************)
MaxHosts == 2      \* longest list of hosts
MaxLimit == 2      \* largest concurrency limit that is set explicitly
MaxTimeout == 1    \* largest timeout that is set explicitly, in poll passes
MaxDur == 2        \* longest life of a process that exits, in poll passes
MaxRc == 1         \* largest exit status of a process

Ops == {"call", "copy", "slurp"}

HostNames == {Str(<<"a", "b", "c">>), Str(<<"h", "1">>)}
Ports == {IntV(22), Str(<<"2", "2", "2">>)}
Users == {Str(<<"b", "o", "b">>), Str(<<"a", "m", "y">>)}

\* a bare host name, (host,), (host, port) or (host, port, user)
Entries ==
    HostNames
    \cup {Tup(<<h>>) : h \in HostNames}
    \cup {Tup(<<h, p>>) : h \in HostNames, p \in Ports}
    \cup {Tup(<<h, p, u>>) : h \in HostNames, p \in Ports, u \in Users}

\* The code reads the first entry of the list only; the further entries
\* range over the bare names.
HostLists ==
    {<<>>} \cup
    {<<e>> \o t : e \in Entries,
                  t \in UNION {[1..k -> HostNames] : k \in 0..(MaxHosts - 1)}}

\* the host named by an entry
EntryHost(e) == IF e.t = "str" THEN e ELSE e.v[1]
EntryPort(e) == IF e.t = "tuple" /\ Len(e.v) >= 2 THEN e.v[2] ELSE None
EntryUser(e) == IF e.t = "tuple" /\ Len(e.v) >= 3 THEN e.v[3] ELSE None

CopyOptions == [Options EXCEPT !.cls = "CopyOptions"]
OutDir == Lit("out")
ErrDir == Lit("err")
LocalDir == Lit("loc")

\* the arguments besides hosts and opts
CmdLine == Lit("uptime")
CopySrc == Tup(<<Lit("file")>>)
CopyDst == Lit("/tmp")
SlurpSrc == Lit("/etc/motd")
SlurpDst == Lit("dst")

\* what a process that exits leaves: its status and what it wrote.  A
\* process that fails writes to stderr only.
Contents == {EmptyStr, Lit("x")}
Procs ==
    {[rc |-> 0, out |-> o, err |-> e] : o \in Contents, e \in Contents}
    \cup {[rc |-> r, out |-> EmptyStr, err |-> Lit("x")] : r \in 1..MaxRc}

VARIABLES
    op,             \* the operation called
    hosts,          \* its hosts argument, a list
    opts,           \* its opts argument
    writable,       \* whether directories can be made
    fatal,          \* the engine's fatal-failure threshold, 0: none
    fs,             \* the directories that exist
    pc,             \* where the operation is
    exc,            \* the exception it ended with (pc = "raised")
    manager,        \* the Manager
    objs,           \* the Task objects, in the order of their construction
    finished_tasks, \* the builder's list
    iter,           \* the host loop's iterator: the tuple and the position
    ret,            \* the value returned (pc = "returned")
    exitcode,       \* the status of sys.exit (pc = "exited")
    launched,       \* the tasks in the order the engine launched them
    resultCalls     \* how often result() was called

vars == <<op, hosts, opts, writable, fatal, fs, pc, exc, manager, objs,
          finished_tasks, iter, ret, exitcode, launched, resultCalls>>

inputs == <<op, hosts, opts, writable, fatal>>

(***************************************************************************)
(* The initial states: the call about to be made.                          *)
(***************************************************************************)
\* the lists whose first entry is a (host, port, user) of three names of
\* three characters each: the lists for which the host loop ends normally
RunLists ==
    {l \in HostLists :
        /\ Len(l) > 0
        /\ l[1].t = "tuple"
        /\ Len(l[1].v) = 3
        /\ \A i \in 1..3 : l[1].v[i].t = "str" /\ Len(l[1].v[i].v) = 3}

SchedOpts ==
    {[Options EXCEPT !.limit = l, !.timeout = t] :
        l \in 1..MaxLimit, t \in 0..MaxTimeout}

SinkOpts ==
    {[Options EXCEPT !.limit = 1, !.inline = i, !.inline_stdout = s,
                     !.outdir = o, !.errdir = e] :
        i \in BOOLEAN, s \in BOOLEAN, o \in {None, OutDir}, e \in {None, ErrDir}}

SlurpOpts ==
    {[CopyOptions EXCEPT !.limit = 1, !.localdir = d, !.outdir = o] :
        d \in {None, LocalDir}, o \in {None, OutDir}}

NoIter == [it |-> None, i |-> 0]
NoValue == [t |-> "unset", v |-> <<>>]

Init ==
    /\ \/ /\ op \in Ops
          /\ hosts \in HostLists
          /\ opts \in IF op = "call" THEN {Options} ELSE {Options, CopyOptions}
          /\ writable = TRUE
          /\ fatal = 0
          /\ fs = {}
       \/ /\ op = "call"
          /\ hosts \in {l \in RunLists : Len(l) = 1}
          /\ opts \in SchedOpts
          /\ writable = TRUE
          /\ fatal \in {0, 2}
          /\ fs = {}
       \/ /\ op \in {"call", "copy"}
          /\ hosts \in {l \in RunLists : Len(l) = 1}
          /\ opts \in SinkOpts
          /\ writable \in BOOLEAN
          /\ fatal = 0
          /\ fs \in {{}, {OutDir}}
       \/ /\ op = "slurp"
          /\ hosts \in {l \in RunLists : Len(l) = 1}
          /\ opts \in SlurpOpts
          /\ writable \in BOOLEAN
          /\ fatal \in {0, 2}
          /\ fs \in {{}, {LocalDir}}
    /\ pc = IF op = "slurp" THEN "localdirs" ELSE "outdirs"
    /\ exc = None
    /\ manager = NoManager
    /\ objs = <<>>
    /\ finished_tasks = <<>>
    /\ iter = NoIter
    /\ ret = NoValue
    /\ exitcode = 0
    /\ launched = <<>>
    /\ resultCalls = 0

(***************************************************************************)
(* call, copy and slurp up to manager.run().                               *)
(***************************************************************************)
\* slurp, line 284: _slurp_make_local_dirs(hosts, dst, opts)
SlurpMakeLocalDirs ==
    /\ pc = "localdirs"
    /\ LET r == _slurp_make_local_dirs(hosts, SlurpDst, opts, fs, writable) IN
       /\ fs' = r.fs
       /\ exc' = r.exc
       /\ pc' = IF IsRaise(r.exc) THEN "raised" ELSE "outdirs"
    /\ UNCHANGED <<inputs, manager, objs, finished_tasks, iter, ret, exitcode,
                   launched, resultCalls>>

\* the output directories left to be made by whoever writes to them
MakeOutputDirs_Skipped ==
    /\ pc = "outdirs"
    /\ pc' = "manager"
    /\ UNCHANGED <<inputs, fs, exc, manager, objs, finished_tasks, iter, ret,
                   exitcode, launched, resultCalls>>

\* lines 125-128 (199-202, 285-288): the output directories
MakeOutputDirs ==
    /\ pc = "outdirs"
    /\ LET o == EnsureDir(fs, writable, opts.outdir)
           e == IF IsRaise(o.exc) THEN o ELSE EnsureDir(o.fs, writable, opts.errdir)
       IN /\ fs' = e.fs
          /\ exc' = e.exc
          /\ pc' = IF IsRaise(e.exc) THEN "raised" ELSE "manager"
    /\ UNCHANGED <<inputs, manager, objs, finished_tasks, iter, ret, exitcode,
                   launched, resultCalls>>

\* the callbacks argument: _CallOutputBuilder(), _CopyOutputBuilder() and
\* _SlurpOutputBuilder().  _CopyOutputBuilder.__init__ takes dst, and copy
\* passes nothing.
NewBuilder(o) ==
    IF o = "copy" THEN Raise("TypeError") ELSE Tup(<<>>)

\* lines 129-134 (203-208, 289-294): the Manager and its result builder
CreateManager ==
    /\ pc = "manager"
    /\ IF IsRaise(NewBuilder(op))
       THEN /\ pc' = "raised"
            /\ exc' = NewBuilder(op)
            /\ UNCHANGED <<manager, finished_tasks>>
       ELSE /\ pc' = "expand"
            /\ finished_tasks' = NewBuilder(op).v
            /\ manager' = NewManager(opts)
            /\ exc' = exc
    /\ UNCHANGED <<inputs, fs, objs, iter, ret, exitcode, launched, resultCalls>>

\* line 135 (209, 295): the for statement evaluates
\* _expand_host_port_user(hosts) and takes its iterator
BeginLoop ==
    /\ pc = "expand"
    /\ LET it == Iterate(_expand_host_port_user(hosts)) IN
       IF IsRaise(it)
       THEN pc' = "raised" /\ exc' = it /\ iter' = iter
       ELSE pc' = "loop" /\ exc' = exc /\ iter' = [it |-> it, i |-> 1]
    /\ UNCHANGED <<inputs, fs, manager, objs, finished_tasks, ret, exitcode,
                   launched, resultCalls>>

\* the command line of one iteration, or the exception
BuildCmd(o, host, port, user, op_opts) ==
    CASE o = "call" ->
            _build_call_cmd(host, port, user, CmdLine,
                            op_opts.ssh_options, op_opts.ssh_extra)
      [] o = "copy" ->
            _build_copy_cmd(host, port, user, CopySrc, CopyDst, op_opts)
      [] o = "slurp" ->
            IF ~HasAttr(op_opts, "localdir") THEN Raise("AttributeError")
            ELSE _build_slurp_cmd(host, port, user, SlurpSrc,
                    IF Truthy(op_opts.localdir)
                    THEN FmtPath(FmtPath(op_opts.localdir, host), SlurpDst)
                    ELSE FmtPath(host, SlurpDst),
                    op_opts)

\* lines 135-146 (209-218, 295-308): one iteration of the host loop, or
\* its end
LoopBody ==
    /\ pc = "loop"
    /\ IF iter.i > Len(iter.it.v)
       THEN /\ pc' = "run"
            /\ UNCHANGED <<exc, iter, objs, manager>>
       ELSE LET hpu == Unpack3(iter.it.v[iter.i])
                cmd == BuildCmd(op, hpu.v[1], hpu.v[2], hpu.v[3], opts)
            IN IF IsRaise(hpu)
               THEN /\ pc' = "raised" /\ exc' = hpu
                    /\ UNCHANGED <<iter, objs, manager>>
               ELSE IF IsRaise(cmd)
               THEN /\ pc' = "raised" /\ exc' = cmd
                    /\ UNCHANGED <<iter, objs, manager>>
               ELSE /\ objs' = Append(objs,
                              Task(hpu.v[1], hpu.v[2], hpu.v[3], cmd.v, opts))
                    /\ manager' = add_task(manager, Len(objs) + 1)
                    /\ iter' = [iter EXCEPT !.i = @ + 1]
                    /\ UNCHANGED <<pc, exc>>
    /\ UNCHANGED <<inputs, fs, finished_tasks, ret, exitcode, launched,
                   resultCalls>>

(***************************************************************************)
(* manager.run(): the engine.  One control flow launches the pending tasks *)
(* in submission order while slots are free, polls the running ones, and   *)
(* finalizes each that has exited or has run past the timeout, calling     *)
(* callbacks.finished() with it at once.                                   *)
(***************************************************************************)
Terminal == {"Succeeded", "Failed", "TimedOut"}

ExitFailure(rc) == Str(<<"Exited with error code ", ToString(rc)>>)
TimeoutFailure == Lit("Timed out")
KilledFailure == Lit("Killed by signal 9")

CanLaunch ==
    /\ manager.state = "Draining"
    /\ Len(manager.running) < manager.limit
    /\ Len(manager.tasks) > 0

\* the task has run past the timeout
Expired(task) == manager.timeout > 0 /\ task.elapsed > manager.timeout

\* the task's process may have exited: it ran for at least one pass, and
\* not longer than the timeout allows
MayExit(task) == task.elapsed >= 1 /\ ~Expired(task)

\* the number of tasks that failed
Failed(os) == Cardinality({i \in DOMAIN os : os[i].state \in {"Failed", "TimedOut"}})

\* the fatal-failure policy: the count of failed tasks reaches the threshold
FatalNow(os) == fatal > 0 /\ Failed(os) >= fatal

Remove(q, x) == SelectSeq(q, LAMBDA y : y # x)

\* run() is entered
RunStart ==
    /\ pc = "run"
    /\ manager.state = "Idle"
    /\ manager' = [manager EXCEPT !.state = "Draining"]
    /\ UNCHANGED <<inputs, fs, pc, exc, objs, finished_tasks, iter, ret,
                   exitcode, launched, resultCalls>>

\* the head of the pending queue is started
Launch ==
    /\ pc = "run"
    /\ CanLaunch
    /\ LET t == Head(manager.tasks) IN
       /\ manager' = [manager EXCEPT !.tasks = Tail(@), !.running = Append(@, t)]
       /\ objs' = [objs EXCEPT ![t].state = "Running"]
       /\ launched' = Append(launched, t)
    /\ UNCHANGED <<inputs, fs, pc, exc, finished_tasks, iter, ret, exitcode,
                   resultCalls>>

\* one polling interval passes with no process exiting
Tick ==
    /\ pc = "run"
    /\ manager.state = "Draining"
    /\ ~CanLaunch
    /\ Len(manager.running) > 0
    /\ \A t \in Range(manager.running) :
          ~Expired(objs[t]) /\ objs[t].elapsed < MaxDur
    /\ objs' = [i \in DOMAIN objs |->
                  IF objs[i].state = "Running"
                  THEN [objs[i] EXCEPT !.elapsed = @ + 1]
                  ELSE objs[i]]
    /\ UNCHANGED <<inputs, fs, pc, exc, manager, finished_tasks, iter, ret,
                   exitcode, launched, resultCalls>>

\* the task after its process exited as p
Exited(task, p) ==
    LET fl == IF p.rc # 0 THEN Append(task.failures, ExitFailure(p.rc))
              ELSE task.failures
    IN [task EXCEPT
          !.proc = [dur |-> task.elapsed, rc |-> p.rc, out |-> p.out, err |-> p.err],
          !.exitstatus = IntV(p.rc),
          !.failures = fl,
          !.outputbuffer = IF task.inline \/ task.inline_stdout THEN p.out ELSE EmptyStr,
          !.errorbuffer = IF task.inline THEN p.err ELSE EmptyStr,
          !.state = IF Len(fl) > 0 THEN "Failed" ELSE "Succeeded"]

\* the task after the engine killed its process
Killed(task) ==
    [task EXCEPT
       !.exitstatus = IntV(-9),
       !.failures = task.failures \o <<TimeoutFailure, KilledFailure>>,
       !.state = "TimedOut"]

\* the engine after task t became terminal as nt: the completion hook is
\* called, the slot is freed and the fatal-failure policy evaluated
Finalized(t, nt) ==
    LET os == [objs EXCEPT ![t] = nt] IN
    /\ objs' = os
    /\ finished_tasks' = finished(finished_tasks, t)
    /\ manager' = [manager EXCEPT
                     !.running = Remove(@, t),
                     !.done = Append(@, t),
                     !.state = IF FatalNow(os) THEN "Aborted" ELSE @]

\* a process has exited
Finalize ==
    /\ pc = "run"
    /\ manager.state = "Draining"
    /\ ~CanLaunch
    /\ \E t \in Range(manager.running), p \in Procs :
          /\ MayExit(objs[t])
          /\ Finalized(t, Exited(objs[t], p))
    /\ UNCHANGED <<inputs, fs, pc, exc, iter, ret, exitcode, launched,
                   resultCalls>>

\* a task has run past the timeout
Timeout ==
    /\ pc = "run"
    /\ manager.state = "Draining"
    /\ ~CanLaunch
    /\ \E t \in Range(manager.running) :
          /\ Expired(objs[t])
          /\ Finalized(t, Killed(objs[t]))
    /\ UNCHANGED <<inputs, fs, pc, exc, iter, ret, exitcode, launched,
                   resultCalls>>

\* nothing is pending or running: callbacks.result(manager) makes the
\* value of run()
Complete ==
    /\ pc = "run"
    /\ manager.state = "Draining"
    /\ Len(manager.tasks) = 0
    /\ Len(manager.running) = 0
    /\ manager' = [manager EXCEPT !.state = "Complete"]
    /\ ret' = result(finished_tasks, objs, manager)
    /\ resultCalls' = resultCalls + 1
    /\ UNCHANGED <<inputs, fs, pc, exc, objs, finished_tasks, iter, exitcode,
                   launched>>

(***************************************************************************)
(* lines 147-150 (219-222, 309-312)                                        *)
(***************************************************************************)
\* return manager.run()
ReturnResult ==
    /\ pc = "run"
    /\ manager.state = "Complete"
    /\ pc' = "returned"
    /\ UNCHANGED <<inputs, fs, exc, manager, objs, finished_tasks, iter, ret,
                   exitcode, launched, resultCalls>>

\* the status the process exits with on FatalError
FatalExitStatus == 1

\* FatalError swallowed: what the builder holds so far is returned
ExitOnFatal_ReturnsPartial ==
    /\ pc = "run"
    /\ manager.state = "Aborted"
    /\ pc' = "returned"
    /\ ret' = result(finished_tasks, objs, manager)
    /\ UNCHANGED <<inputs, fs, exc, manager, objs, finished_tasks, iter,
                   exitcode, launched, resultCalls>>

\* except FatalError: sys.exit(1)
ExitOnFatal ==
    /\ pc = "run"
    /\ manager.state = "Aborted"
    /\ pc' = "exited"
    /\ exitcode' = FatalExitStatus
    /\ UNCHANGED <<inputs, fs, exc, manager, objs, finished_tasks, iter, ret,
                   launched, resultCalls>>

Next ==
    \/ SlurpMakeLocalDirs
    \/ MakeOutputDirs
    \/ CreateManager
    \/ BeginLoop
    \/ LoopBody
    \/ RunStart
    \/ Launch
    \/ Tick
    \/ Finalize
    \/ Timeout
    \/ Complete
    \/ ReturnResult
    \/ ExitOnFatal

Spec == Init /\ [][Next]_vars

(***************************************************************************)
(* Properties.                                                             *)
(***************************************************************************)
\* the hosts named by the entries of the list
HostsOf(l) == {EntryHost(l[i]) : i \in DOMAIN l}

\* the triples the documentation of _expand_host_port_user promises
ExpandedAsDocumented(l) ==
    Tup([i \in DOMAIN l |->
            Tup(<<EntryHost(l[i]), EntryPort(l[i]), EntryUser(l[i])>>)])

\* manager.run() was entered: the host loop ended without an exception
LoopEnded == pc \in {"run", "returned", "exited"}

\* the position in finished_tasks of the last task of host h
LastOf(h) ==
    Max({i \in DOMAIN finished_tasks : objs[finished_tasks[i]].host = h})

\* the task at position i of finished_tasks is the last one of its host
IsLast(i) == LastOf(objs[finished_tasks[i]].host) = i

IsError(x) == x.t = "Error"

\* C1: when the operation returns, the keys of the mapping are exactly the
\* hosts of the submitted list.
C1_KeysAreSubmittedHosts ==
    pc = "returned" => Keys(ret) = HostsOf(hosts)

\* C6: _expand_host_port_user yields one (host, port, user) per entry, in
\* order, None for a missing port or user, and the operation submits one
\* Task per entry in that order.
C6_OneTriplePerEntry ==
    /\ _expand_host_port_user(hosts) = ExpandedAsDocumented(hosts)
    /\ LoopEnded =>
          /\ Len(objs) = Len(hosts)
          /\ \A i \in DOMAIN objs :
                /\ objs[i].host = EntryHost(hosts[i])
                /\ objs[i].port = EntryPort(hosts[i])
                /\ objs[i].user = EntryUser(hosts[i])

\* C9: copy and slurp, given a non-empty list of hosts and a default
\* Options object, never end with an exception: they submit one task per
\* host and end by returning the mapping or by the fatal exit.
C9_CopySlurpReachEngine ==
    (op \in {"copy", "slurp"} /\ opts = Options /\ Len(hosts) > 0) =>
        /\ pc # "raised"
        /\ LoopEnded => Len(objs) = Len(hosts)

NoDuplicates(q) == \A i, j \in DOMAIN q : q[i] = q[j] => i = j

\* C2: finished() is called once for each submitted task, and only with a
\* task that is terminal; result() is called once, after the last
\* finished(), so that it finds every submitted task once in
\* finished_tasks; a run that returns has called it.
C2_HooksOncePerTask ==
    /\ \A i \in DOMAIN finished_tasks :
          /\ finished_tasks[i] \in DOMAIN objs
          /\ objs[finished_tasks[i]].state \in Terminal
    /\ NoDuplicates(finished_tasks)
    /\ Len(finished_tasks) =
          Cardinality({i \in DOMAIN objs : objs[i].state \in Terminal})
    /\ resultCalls <= 1
    /\ resultCalls = 1 => Range(finished_tasks) = DOMAIN objs
    /\ pc = "returned" => resultCalls = 1

\* three tasks finished in another order than they were submitted in, and
\* the run returned
C2_Witness ==
    /\ pc = "returned"
    /\ Len(finished_tasks) = 3
    /\ finished_tasks[1] # 1

\* C3 (state part): never more tasks running than opts.limit; the tasks
\* are launched in the order of their submission.
C3_Bounded ==
    manager.made =>
        /\ Len(manager.running) <= opts.limit
        /\ Cardinality({i \in DOMAIN objs : objs[i].state = "Running"}) <= opts.limit
        /\ launched = [i \in 1..Len(launched) |-> i]

\* C3 (step part): a launch happens only into a free slot and takes the
\* head of the pending queue, and while run() has a free slot and a
\* pending task its next step is that launch.
C3_LaunchStep ==
    /\ launched' # launched =>
          /\ Len(manager.running) < opts.limit
          /\ Len(manager.tasks) > 0
          /\ launched' = Append(launched, Head(manager.tasks))
          /\ objs'[Head(manager.tasks)].state = "Running"
    /\ (/\ pc = "run"
        /\ manager.state = "Draining"
        /\ Len(manager.running) < opts.limit
        /\ Len(manager.tasks) > 0) =>
          launched' = Append(launched, Head(manager.tasks))

\* C3: at most opts.limit tasks are in flight, and whenever fewer are and a
\* task is pending the next task launched is the head of the pending queue.
C3_LimitAndFifo == []C3_Bounded /\ [][C3_LaunchStep]_vars

\* the limit is reached while a task is still pending
C3_Witness ==
    /\ manager.made
    /\ opts.limit = 2
    /\ Len(manager.running) = 2
    /\ Len(manager.tasks) > 0
    /\ launched = <<1, 2>>

\* C4 (state part): after a fatal abort no mapping is returned and
\* result() has not made one; an exit is with a non-zero status.
C4_NoMapping ==
    /\ manager.state = "Aborted" =>
          /\ pc \in {"run", "exited"}
          /\ ret = NoValue
          /\ resultCalls = 0
    /\ pc = "exited" => exitcode # 0 /\ manager.state = "Aborted"
    /\ pc = "returned" => manager.state = "Complete"

\* C4 (step part): the step after the engine's fatal abort ends the
\* process.
C4_ExitStep ==
    (pc = "run" /\ manager.state = "Aborted") =>
        (pc' = "exited" /\ exitcode' # 0 /\ ret' = NoValue)

\* C4: on FatalError from manager.run() the operation ends the process
\* with a non-zero status and returns no mapping, partial or complete.
C4_FatalExits == []C4_NoMapping /\ [][C4_ExitStep]_vars

\* the process exited while a task had finished and another had not
C4_Witness ==
    /\ pc = "exited"
    /\ exitcode = 1
    /\ Len(finished_tasks) >= 2
    /\ \E i \in DOMAIN objs : objs[i].state \notin Terminal

\* the entry of the mapping for the task at position i of finished_tasks
EntryAt(i) == Get(ret, objs[finished_tasks[i]].host)

\* the entry result() has to store for a task: an Error with the reasons
\* joined in order for a task with failures, a triple that starts with the
\* exit status for a task without
RightKind(e, task) ==
    /\ IsError(e) <=> task.failures # <<>>
    /\ e.t = "tuple" <=> task.failures = <<>>
    /\ IsError(e) => e = Error(Join(task.failures))
    /\ e.t = "tuple" => Len(e.v) = 3 /\ e.v[1] = task.exitstatus

\* C5: every finished task decides the entry of its host: an
\* Error with its failure reasons joined in order if and only if it has
\* failures, a triple if and only if it has none (it succeeded with status
\* 0).
C5_EveryTaskDecidesEntry ==
    pc = "returned" =>
        /\ Keys(ret) = {objs[i].host : i \in Range(finished_tasks)}
        /\ \A i \in DOMAIN finished_tasks :
              LET task == objs[finished_tasks[i]] IN
              /\ RightKind(EntryAt(i), task)
              /\ task.failures = <<>> <=>
                    (task.state = "Succeeded" /\ task.exitstatus = IntV(0))

\* C8: when the Manager or a Task exists, the output directories that are
\* set exist, and in slurp so do the destination and the local directory
\* of every task's host; an operation that failed to make a directory has
\* constructed no Manager and no Task.
C8_SetupBeforeTasks ==
    /\ (manager.made \/ Len(objs) > 0) =>
          /\ Truthy(opts.outdir) => Exists(fs, opts.outdir)
          /\ Truthy(opts.errdir) => Exists(fs, opts.errdir)
          /\ op = "slurp" =>
                /\ Exists(fs, SlurpDst)
                /\ \A i \in DOMAIN objs :
                      Exists(fs, IF Truthy(opts.localdir)
                                 THEN FmtPath(opts.localdir, objs[i].host)
                                 ELSE objs[i].host)
    /\ (pc = "raised" /\ exc = Raise("OSError")) =>
          (~manager.made /\ Len(objs) = 0 /\ launched = <<>>)

\* slurp launched a task after making the output directory and the tasks'
\* local directories under localdir
C8_Witness ==
    /\ op = "slurp"
    /\ Truthy(opts.outdir) /\ Truthy(opts.localdir)
    /\ Len(launched) > 0
    /\ Cardinality(fs) >= 5

\* the C8 case of a failure: a directory could not be made
C8_FailureReached ==
    pc = "raised" /\ exc = Raise("OSError")

\* whether the task ran past the timeout of the options, by its own clock
RanPastTimeout(task) == opts.timeout > 0 /\ task.elapsed > opts.timeout

\* the terminal state a task reaches by itself: by its own running time and
\* the exit status of its own process
OwnState(task) ==
    IF RanPastTimeout(task) THEN "TimedOut"
    ELSE IF task.proc.rc # 0 THEN "Failed"
    ELSE "Succeeded"

\* what the task's process wrote, as far as the task buffers it in memory
OwnStdout(task) ==
    IF task.inline \/ task.inline_stdout THEN task.proc.out ELSE EmptyStr
OwnStderr(task) ==
    IF task.inline THEN task.proc.err ELSE EmptyStr

\* the entry a task gets by itself
OwnEntry(task) ==
    IF RanPastTimeout(task)
    THEN Error(Str(<<"Timed out", ", ", "Killed by signal 9">>))
    ELSE IF task.proc.rc # 0
    THEN Error(Str(<<"Exited with error code ", ToString(task.proc.rc)>>))
    ELSE Tup(<<IntV(0),
               PyOr(OwnStdout(task), opts.outdir),
               PyOr(OwnStderr(task), opts.errdir)>>)

\* the message of the Error names the timeout
NamesTimeout(e) == IsError(e) /\ "Timed out" \in Range(e.v[1].v)

\* every task ends as its own running time and process decide, and none
\* runs for more than one pass beyond the timeout
C7_OwnClock ==
    \A i \in DOMAIN objs :
        /\ opts.timeout > 0 => objs[i].elapsed <= opts.timeout + 1
        /\ objs[i].state \in Terminal =>
              /\ objs[i].state = OwnState(objs[i])
              /\ objs[i].state = "TimedOut" <=> TimeoutFailure \in Range(objs[i].failures)

\* C7: a task that runs past the timeout, counted from its own
\* launch, ends TimedOut and its host maps to an Error that names the
\* timeout, while every other task ends in the state, and its host gets
\* the entry, that the task's own process decides.
C7_TimeoutIndependent ==
    /\ C7_OwnClock
    /\ pc = "returned" =>
          \A i \in DOMAIN finished_tasks :
              objs[finished_tasks[i]].state = "TimedOut" =>
                  /\ NamesTimeout(EntryAt(i))
                  /\ \A j \in DOMAIN finished_tasks \ {i} :
                        EntryAt(j) = OwnEntry(objs[finished_tasks[j]])

\* C10: the entry of a task without failures is (exit status, stdout
\* field, stderr field); the field of a stream buffered in memory is what
\* was captured, also when that is empty, and the field of a stream that
\* is not is the output directory.
C10_StreamFields ==
    pc = "returned" =>
        \A i \in DOMAIN finished_tasks :
            LET task == objs[finished_tasks[i]] IN
            (IsLast(i) /\ task.failures = <<>>) =>
                EntryAt(i) =
                    Tup(<<task.exitstatus,
                          IF task.inline \/ task.inline_stdout
                          THEN task.outputbuffer ELSE opts.outdir,
                          IF task.inline
                          THEN task.errorbuffer ELSE opts.errdir>>)

====
